---- MODULE Spec2Model ----
(***************************************************************************)
(* Conway's Game of Life on a toroidal grid (game_of_life.py).             *)
(*                                                                         *)
(* GameState.next_generation is modelled statement by statement: the copy  *)
(* (line 41), one step per iteration of the per-cell loop (lines 42-48)    *)
(* and the final assignment (line 49).  Two specifications share these     *)
(* actions:                                                                *)
(*   Spec      a GameState driven by direct next_generation calls, as in   *)
(*             TestGameState;                                              *)
(*   SpecGame  Game.run: draw, poll, dispatch each event to ButtonAction.  *)
(***************************************************************************)
EXTENDS Integers, Sequences, FiniteSets

\* ------------------------------------------------------------------ bounds
\* Spec explores grids of width and height 1..MaxDim.
MaxDim == 5
\* Every 0/1 grid with at most MaxCells cells is an initial grid of Spec;
\* larger grids start from the pattern family (lines, blocks, empty, full).
MaxCells == 12
\* SpecGame explores widths and heights 1..GameMaxDim, and every 0/1 grid with
\* at most GameMaxCells cells is an initial grid of it.
GameMaxDim == 3
GameMaxCells == 6
\* Longest event batch one pygame.event.get() returns.
MaxBatch == 2
\* In-button clicks delivered over one run of the game.
MaxClicks == 2
\* GameConfig objects allocated in SpecConfig.
MaxAllocs == 3
\* Longest EventManager.listeners in SpecEvents.
MaxRegistrations == 3
\* Longest CompositeGraphic.children in SpecComposite.
MaxChildren == 3
\* Grid dimensions and exhaustive-grid size of SpecTorus.
\* Grid dimensions and exhaustive-grid size of SpecGameFair.
FairMaxDim == 2
FairMaxCells == 4
TorusMaxDim == 4
TorusMaxCells == 9

\* --------------------------------------------------------- configuration
width == 800
height == 600
button_width == 200
button_height == 50
button_x == (width - button_width) \div 2
button_y == height - button_height - 10

VARIABLES
    n_cells_x,   \* config.n_cells_x
    n_cells_y,   \* config.n_cells_y
    state,       \* GameState.state: [<<x, y>> -> cell value]
    new_state,   \* next_generation's local new_state (NoGrid outside a call)
    loop_x,      \* next_generation's loop variable x
    loop_y,      \* next_generation's loop variable y
    pc,          \* position of the single thread of control
    ret,         \* where the running next_generation call returns to
    pre,         \* history: self.state as it was when the call was entered
    running,     \* Game.run's local running
    pending,     \* events of the polled batch not yet iterated over
    screen,      \* cells painted black by the last draw_cells
    clicks,      \* history: in-button clicks delivered so far
    executes,    \* history: NextGenerationStrategy.execute calls so far
    drawn_at,    \* history: the value of executes at the last draw
    cfg_instance,  \* GameConfig._instance: NoInstance or an object identity
    cfg_allocs,    \* GameConfig objects allocated so far (identities 1, 2, ...)
    cfg_returned,  \* history: identities get_instance has returned
    cfg_last,      \* history: outcome of the last GameConfig operation
    em_listeners,  \* EventManager.listeners
    em_calls,      \* update calls made by the last notify, in order
    em_last,       \* history: the last EventManager operation and its argument
    cg_children,   \* CompositeGraphic.children
    cg_drawn,      \* draw calls made by the last CompositeGraphic.draw, in order
    cg_last,       \* history: the last CompositeGraphic operation
    cg_prev        \* history: the CompositeGraphic operation before that

config_vars == <<cfg_instance, cfg_allocs, cfg_returned, cfg_last>>
em_vars == <<em_listeners, em_calls, em_last>>
cg_vars == <<cg_children, cg_drawn, cg_last, cg_prev>>
lib_vars == <<config_vars, em_vars, cg_vars>>

vars == <<n_cells_x, n_cells_y, state, new_state, loop_x, loop_y, pc, ret, pre,
          running, pending, screen, clicks, executes, drawn_at, lib_vars>>

grid_vars == <<state, new_state, loop_x, loop_y, pre>>
shell_vars == <<running, pending, screen, clicks, executes, drawn_at>>

NoGrid == <<>>

\* ------------------------------------------------------------ grid model
Cells(W, H) == (0 .. W - 1) \X (0 .. H - 1)

\* np.random.choice([0, 1], size=(n_cells_x, n_cells_y), p=[0.8, 0.2]):
\* every 0/1 array of that shape has positive probability.
GameStateInitSwapped(W, H) == [Cells(H, W) -> {0, 1}]
GameStateInit(W, H) == [Cells(W, H) -> {0, 1}]

RECURSIVE SumSeq(_)
SumSeq(s) == IF s = <<>> THEN 0 ELSE Head(s) + SumSeq(Tail(s))

\* for i in [-1, 0, 1] for j in [-1, 0, 1]
OffsetPairs ==
    << <<-1, -1>>, <<-1, 0>>, <<-1, 1>>,
       << 0, -1>>, << 0, 0>>, << 0, 1>>,
       << 1, -1>>, << 1, 0>>, << 1, 1>> >>

\* ... if not (i == 0 and j == 0)
NotCentre(d) == ~(d[1] = 0 /\ d[2] = 0)

\* Mutants of the neighbour lookup: no wraparound (cells beyond an edge count
\* as dead), and the centre cell counted as well (the filter dropped).
count_neighbors_withcentre(st, W, H, x, y) ==
    SumSeq([k \in 1 .. Len(OffsetPairs) |->
             st[<<(x + OffsetPairs[k][1]) % W, (y + OffsetPairs[k][2]) % H>>]])
count_neighbors_nowrap(st, W, H, x, y) ==
    LET offs == SelectSeq(OffsetPairs, NotCentre)
    IN  SumSeq([k \in 1 .. Len(offs) |->
                 LET nx == x + offs[k][1]
                     ny == y + offs[k][2]
                 IN  IF nx \in 0 .. W - 1 /\ ny \in 0 .. H - 1
                     THEN st[<<nx, ny>>] ELSE 0])

\* sum([self.state[(x + i) % n_cells_x, (y + j) % n_cells_y] for ...])
\* Python's % and TLA+'s % both give a result in 0 .. n-1 for n > 0.
count_neighbors(st, W, H, x, y) ==
    LET offs == SelectSeq(OffsetPairs, NotCentre)
    IN  SumSeq([k \in 1 .. Len(offs) |->
                 st[<<(x + offs[k][1]) % W, (y + offs[k][2]) % H>>]])

\* The two tests of the loop body: "kill" is line 45, "birth" line 47,
\* "keep" neither (the copied value stays).
CellBranchBirthBelow(cur, n) ==
    IF cur = 1 /\ (n < 2 \/ n > 3) THEN "kill"
    ELSE IF cur = 0 /\ n <= 3 THEN "birth"
    ELSE "keep"
CellBranchOffByOne(cur, n) ==
    IF cur = 1 /\ (n < 2 \/ n >= 3) THEN "kill"
    ELSE IF cur = 0 /\ n = 3 THEN "birth"
    ELSE "keep"
CellBranch(cur, n) ==
    IF cur = 1 /\ (n < 2 \/ n > 3) THEN "kill"
    ELSE IF cur = 0 /\ n = 3 THEN "birth"
    ELSE "keep"

\* new_state[x, y] = v.  new_state is a copy, so self.state is untouched; the
\* mutant is the store when new_state aliases self.state (no np.copy).
StoreCellAliased(st, ns, c, v) ==
    [state |-> [st EXCEPT ![c] = v], new_state |-> [ns EXCEPT ![c] = v]]
StoreCell(st, ns, c, v) ==
    [state |-> st, new_state |-> [ns EXCEPT ![c] = v]]

\* The value line 48 stores; the mutant stores the neighbour count.
BirthValueCount(n) == n
BirthValue(n) == 1

\* One iteration of the loop body (lines 44-48) at cell (x, y): the arrays
\* after it.  The mutant reads the neighbours and the cell from new_state.
UpdateCellReadsNew(st, ns, W, H, x, y) ==
    LET n_neighbors == count_neighbors(ns, W, H, x, y)
        branch == CellBranch(ns[<<x, y>>], n_neighbors)
    IN  IF branch = "kill" THEN StoreCell(st, ns, <<x, y>>, 0)
        ELSE IF branch = "birth" THEN StoreCell(st, ns, <<x, y>>, BirthValue(n_neighbors))
        ELSE [state |-> st, new_state |-> ns]
UpdateCell(st, ns, W, H, x, y) ==
    LET n_neighbors == count_neighbors(st, W, H, x, y)
        branch == CellBranch(st[<<x, y>>], n_neighbors)
    IN  IF branch = "kill" THEN StoreCell(st, ns, <<x, y>>, 0)
        ELSE IF branch = "birth" THEN StoreCell(st, ns, <<x, y>>, BirthValue(n_neighbors))
        ELSE [state |-> st, new_state |-> ns]

\* The loop of lines 42-48 from its k-th iteration on (y outermost, x
\* innermost: iteration k is at x = k % W, y = k \div W), and the array
\* that line 49 then assigns to self.state.
RECURSIVE LoopFrom(_, _, _, _, _)
LoopFrom(st, ns, W, H, k) ==
    IF k = W * H THEN ns
    ELSE LET r == UpdateCell(st, ns, W, H, k % W, k \div W)
         IN  LoopFrom(r.state, r.new_state, W, H, k + 1)

\* next_generation as a function of the grid: np.copy, the loop, the result.
next_generation(st, W, H) == LoopFrom(st, st, W, H, 0)

\* ------------------------------------------------------- initial grids
GridOf(W, H, live) == [c \in Cells(W, H) |-> IF c \in live THEN 1 ELSE 0]

\* Three cells in a row through centre c: axis 1 along x, axis 2 along y.
LineCells(W, H, c, axis) ==
    IF axis = 1
    THEN {<<(c[1] + d) % W, c[2]>> : d \in {-1, 0, 1}}
    ELSE {<<c[1], (c[2] + d) % H>> : d \in {-1, 0, 1}}

\* The 2 x 2 block whose lowest-index corner is c.
BlockCells(W, H, c) ==
    {<<(c[1] + dx) % W, (c[2] + dy) % H>> : dx \in {0, 1}, dy \in {0, 1}}

PatternGrids(W, H) ==
    {GridOf(W, H, LineCells(W, H, c, a)) : c \in Cells(W, H), a \in {1, 2}}
    \cup {GridOf(W, H, BlockCells(W, H, c)) : c \in Cells(W, H)}
    \cup {GridOf(W, H, {}), GridOf(W, H, Cells(W, H))}

InitGrids(W, H, maxCells) ==
    IF W * H <= maxCells THEN GameStateInit(W, H) ELSE PatternGrids(W, H)

\* ------------------------------------- objects built before the game runs
NoInstance == 0
NoEvent == [type |-> "none", pos |-> <<0, 0>>]

\* The one listener GameBuilder.build registers, and the three graphics it adds.
BuiltListeners == <<"button_action">>
BuiltChildren == <<"grid", "cells", "button">>

\* After line 33 (config = GameConfig.get_instance()) and GameBuilder.build:
\* one GameConfig stored, one listener registered, three children added.
Built ==
    /\ cfg_instance = 1
    /\ cfg_allocs = 1
    /\ cfg_returned = {1}
    /\ cfg_last = [op |-> "get_instance", raised |-> FALSE, result |-> 1]
    /\ em_listeners = BuiltListeners
    /\ em_calls = <<>>
    /\ em_last = [op |-> "register", listener |-> "button_action", event |-> NoEvent]
    /\ cg_children = BuiltChildren
    /\ cg_drawn = <<>>
    /\ cg_last = [op |-> "add", c |-> "button", raised |-> FALSE]
    /\ cg_prev = [op |-> "add", c |-> "cells", raised |-> FALSE]

\* ------------------------------------------------- GameState (lines 36-53)
\* GameConfig.__init__ and GameState.__init__, followed by pc0.
Construct(maxDim, maxCells, pc0) ==
    /\ n_cells_x \in 1 .. maxDim
    /\ n_cells_y \in 1 .. maxDim
    /\ state \in InitGrids(n_cells_x, n_cells_y, maxCells)
    /\ new_state = NoGrid
    /\ loop_x = 0
    /\ loop_y = 0
    /\ pre = NoGrid
    /\ pc = pc0
    /\ ret = pc0
    /\ running = TRUE
    /\ pending = 0
    /\ screen = {}
    /\ clicks = 0
    /\ executes = 0
    /\ drawn_at = 0
    /\ Built

\* Line 41 and the loop heads: new_state = np.copy(self.state).
EnterNextGeneration(r) ==
    /\ new_state' = state
    /\ pre' = state
    /\ loop_x' = 0
    /\ loop_y' = 0
    /\ pc' = "cell"
    /\ ret' = r
    /\ UNCHANGED <<n_cells_x, n_cells_y, state>>

\* game_state.next_generation() called directly (TestGameState).
CallNextGeneration ==
    /\ pc = "idle"
    /\ EnterNextGeneration("idle")
    /\ UNCHANGED shell_vars
    /\ UNCHANGED lib_vars

\* One iteration of "for y ... for x ..." (lines 42-48), x innermost.
CellStep ==
    /\ pc = "cell"
    /\ LET r == UpdateCell(state, new_state, n_cells_x, n_cells_y, loop_x, loop_y)
       IN  /\ state' = r.state
           /\ new_state' = r.new_state
    /\ IF loop_x + 1 < n_cells_x
       THEN /\ loop_x' = loop_x + 1
            /\ UNCHANGED <<loop_y, pc>>
       ELSE IF loop_y + 1 < n_cells_y
       THEN /\ loop_x' = 0
            /\ loop_y' = loop_y + 1
            /\ UNCHANGED pc
       ELSE /\ pc' = "commit"
            /\ UNCHANGED <<loop_x, loop_y>>
    /\ UNCHANGED <<n_cells_x, n_cells_y, ret, pre>>
    /\ UNCHANGED shell_vars
    /\ UNCHANGED lib_vars

\* Line 49: self.state = new_state, and the return to the caller.
CommitGeneration ==
    /\ pc = "commit"
    /\ state' = new_state
    /\ new_state' = NoGrid
    /\ pre' = NoGrid
    /\ loop_x' = 0
    /\ loop_y' = 0
    /\ pc' = ret
    /\ UNCHANGED <<n_cells_x, n_cells_y, ret>>
    /\ UNCHANGED shell_vars
    /\ UNCHANGED lib_vars

Init == Construct(MaxDim, MaxCells, "idle")

Next ==
    \/ CallNextGeneration
    \/ CellStep
    \/ CommitGeneration

Spec == Init /\ [][Next]_vars

\* The same calls on the grids of the translation check.
InitTorus == Construct(TorusMaxDim, TorusMaxCells, "idle")

SpecTorus == InitTorus /\ [][Next]_vars

\* ------------------------------------------------ events and the button
QUIT == "QUIT"
MOUSEBUTTONDOWN == "MOUSEBUTTONDOWN"
KEYDOWN == "KEYDOWN"

\* Pointer positions on, just inside and just outside each edge of the button.
ClickXs == {button_x - 1, button_x, width \div 2,
            button_x + button_width, button_x + button_width + 1}
ClickYs == {button_y - 1, button_y,
            button_y + button_height, button_y + button_height + 1}

\* What pygame.event.get() can deliver.
Events ==
    {[type |-> QUIT, pos |-> <<0, 0>>], [type |-> KEYDOWN, pos |-> <<0, 0>>]}
    \cup {[type |-> MOUSEBUTTONDOWN, pos |-> <<px, py>>] : px \in ClickXs, py \in ClickYs}

\* ButtonAction.update's two tests (lines 77-79); the mutants drop the
\* rectangle test, and exclude the far edges of the button.
ButtonHitAnyClick(event) == event.type = MOUSEBUTTONDOWN
ButtonHitExclusive(event) ==
    /\ event.type = MOUSEBUTTONDOWN
    /\ LET x == event.pos[1]
           y == event.pos[2]
       IN  /\ button_x <= x /\ x < button_x + button_width
           /\ button_y <= y /\ y < button_y + button_height
ButtonHit(event) ==
    /\ event.type = MOUSEBUTTONDOWN
    /\ LET x == event.pos[1]
           y == event.pos[2]
       IN  /\ button_x <= x /\ x <= button_x + button_width
           /\ button_y <= y /\ y <= button_y + button_height

\* The rectangle of the button as the interface states it, for the click
\* history: 300 <= x <= 500 and 540 <= y <= 590 on the 800 x 600 window.
InButtonClick(event) ==
    /\ event.type = MOUSEBUTTONDOWN
    /\ event.pos[1] \in 300 .. 500
    /\ event.pos[2] \in 540 .. 590

\* draw_cells (lines 107-112): a black rectangle for every cell equal to 1.
DrawnCells(st, W, H) == {c \in Cells(W, H) : st[c] = 1}

\* ------------------------------------------------- Game.run (lines 188-200)
\* Lines 190-193: the loop test, screen.fill, graphic.draw (Cells.draw reads
\* game_state.state), display.flip.
DrawFrame ==
    /\ pc = "frame"
    /\ screen' = DrawnCells(state, n_cells_x, n_cells_y)
    /\ drawn_at' = executes
    /\ pc' = "poll"
    /\ UNCHANGED <<n_cells_x, n_cells_y, ret, running, pending, clicks, executes>>
    /\ UNCHANGED grid_vars
    /\ UNCHANGED lib_vars

\* Line 195: pygame.event.get() returns a batch of 0..MaxBatch events.  The
\* events themselves are input, drawn when the for loop reaches each of them.
PollEvents ==
    /\ pc = "poll"
    /\ \E n \in 0 .. MaxBatch : pending' = n
    /\ pc' = "events"
    /\ UNCHANGED <<n_cells_x, n_cells_y, ret, running, screen, clicks, executes, drawn_at>>
    /\ UNCHANGED grid_vars
    /\ UNCHANGED lib_vars

\* Lines 196-198 for one event of the batch: the QUIT test, then
\* event_manager.notify -> ButtonAction.update -> strategy.execute ->
\* game_state.next_generation, whose body runs before the next event.
HandleEvent ==
    /\ pc = "events"
    /\ pending > 0
    /\ \E event \in Events :
        /\ InButtonClick(event) => clicks < MaxClicks
        /\ pending' = pending - 1
        /\ running' = IF event.type = QUIT THEN FALSE ELSE running
        /\ clicks' = IF InButtonClick(event) THEN clicks + 1 ELSE clicks
        /\ IF ButtonHit(event)
           THEN /\ executes' = executes + 1
                /\ EnterNextGeneration("events")
           ELSE /\ UNCHANGED executes
                /\ UNCHANGED <<n_cells_x, n_cells_y, pc, ret>>
                /\ UNCHANGED grid_vars
    /\ UNCHANGED <<screen, drawn_at>>
    /\ UNCHANGED lib_vars

\* The batch is exhausted: back to the loop test, or pygame.quit (line 200).
\* Mutants: the next frame polls without drawing; the loop ignores running;
\* the for loop is left as soon as QUIT has been seen.
EndBatchSkipsDraw ==
    /\ pc = "events"
    /\ pending = 0
    /\ pc' = IF running THEN "poll" ELSE "exited"
    /\ UNCHANGED <<n_cells_x, n_cells_y, ret>>
    /\ UNCHANGED grid_vars
    /\ UNCHANGED shell_vars
    /\ UNCHANGED lib_vars
EndBatchIgnoresQuit ==
    /\ pc = "events"
    /\ pending = 0
    /\ pc' = "frame"
    /\ UNCHANGED <<n_cells_x, n_cells_y, ret>>
    /\ UNCHANGED grid_vars
    /\ UNCHANGED shell_vars
    /\ UNCHANGED lib_vars
EndBatchBreaksOnQuit ==
    /\ pc = "events"
    /\ pending = 0 \/ ~running
    /\ pc' = IF running THEN "frame" ELSE "exited"
    /\ UNCHANGED <<n_cells_x, n_cells_y, ret>>
    /\ UNCHANGED grid_vars
    /\ UNCHANGED shell_vars
    /\ UNCHANGED lib_vars
EndBatch ==
    /\ pc = "events"
    /\ pending = 0
    /\ pc' = IF running THEN "frame" ELSE "exited"
    /\ UNCHANGED <<n_cells_x, n_cells_y, ret>>
    /\ UNCHANGED grid_vars
    /\ UNCHANGED shell_vars
    /\ UNCHANGED lib_vars

\* Lines 213-215: GameBuilder(), build(), run().
InitGame == Construct(GameMaxDim, GameMaxCells, "frame")

NextGame ==
    \/ DrawFrame
    \/ PollEvents
    \/ HandleEvent
    \/ EndBatch
    \/ CellStep
    \/ CommitGeneration

SpecGame == InitGame /\ [][NextGame]_vars

\* The program is one thread that runs until pygame.quit: it always takes
\* its next step (pygame.event.get does not block).
InitGameFair == Construct(FairMaxDim, FairMaxCells, "frame")

SpecGameFair == InitGameFair /\ [][NextGame]_vars /\ WF_vars(NextGame)

\* ------------------------------------------------ GameConfig (lines 12-31)
\* No GameState, no game: what SpecConfig, SpecEvents and SpecComposite,
\* which exercise one class each, hold fixed.
NoGame ==
    /\ state = NoGrid
    /\ new_state = NoGrid
    /\ loop_x = 0
    /\ loop_y = 0
    /\ pre = NoGrid
    /\ pc = "lib"
    /\ ret = "lib"
    /\ running = TRUE
    /\ pending = 0
    /\ screen = {}
    /\ clicks = 0
    /\ executes = 0
    /\ drawn_at = 0

game_vars == <<grid_vars, pc, ret, shell_vars>>

\* GameConfig.__init__ (lines 21-31) run on the new object obj while
\* GameConfig._instance is inst: whether it raises, and _instance after it.
\* The mutant has no singleton test.
ConfigInitNoGuard(inst, obj) == [raised |-> FALSE, instance |-> obj]
ConfigInit(inst, obj) ==
    IF inst # NoInstance
    THEN [raised |-> TRUE, instance |-> inst]
    ELSE [raised |-> FALSE, instance |-> obj]

\* GameConfig(): a new object is allocated and __init__ runs on it; when it
\* does not raise, the fields are set (n_cells_x and n_cells_y stand for
\* them) and the object is stored.
ConstructConfig(op) ==
    LET obj == cfg_allocs + 1
        r == ConfigInit(cfg_instance, obj)
    IN  /\ cfg_allocs' = obj
        /\ cfg_instance' = r.instance
        /\ IF r.raised
           THEN UNCHANGED <<n_cells_x, n_cells_y>>
           ELSE /\ n_cells_x' \in 1 .. MaxDim
                /\ n_cells_y' \in 1 .. MaxDim
        /\ cfg_last' = [op |-> op, raised |-> r.raised,
                        result |-> IF r.raised THEN NoInstance ELSE r.instance]

\* GameConfig.get_instance() (lines 15-19).
GetInstance ==
    /\ IF cfg_instance = NoInstance
       THEN /\ cfg_allocs < MaxAllocs
            /\ ConstructConfig("get_instance")
       ELSE /\ cfg_last' = [op |-> "get_instance", raised |-> FALSE,
                            result |-> cfg_instance]
            /\ UNCHANGED <<cfg_instance, cfg_allocs, n_cells_x, n_cells_y>>
    /\ cfg_returned' = cfg_returned \cup {cfg_instance'}
    /\ UNCHANGED <<game_vars, em_vars, cg_vars>>

\* A direct GameConfig() call.
DirectGameConfig ==
    /\ cfg_allocs < MaxAllocs
    /\ ConstructConfig("GameConfig")
    /\ UNCHANGED cfg_returned
    /\ UNCHANGED <<game_vars, em_vars, cg_vars>>

\* No GameConfig yet (before line 33).
NoConfig ==
    /\ n_cells_x = 0
    /\ n_cells_y = 0
    /\ cfg_instance = NoInstance
    /\ cfg_allocs = 0
    /\ cfg_returned = {}
    /\ cfg_last = [op |-> "none", raised |-> FALSE, result |-> NoInstance]

\* EventManager() (lines 57-58): no listeners.
NewEventManager ==
    /\ em_listeners = <<>>
    /\ em_calls = <<>>
    /\ em_last = [op |-> "none", listener |-> "none", event |-> NoEvent]

\* CompositeGraphic() (lines 120-121): no children.
NewComposite ==
    /\ cg_children = <<>>
    /\ cg_drawn = <<>>
    /\ cg_last = [op |-> "none", c |-> "none", raised |-> FALSE]
    /\ cg_prev = [op |-> "none", c |-> "none", raised |-> FALSE]

InitConfig ==
    /\ NoGame
    /\ NoConfig
    /\ NewEventManager
    /\ NewComposite

NextConfig ==
    \/ GetInstance
    \/ DirectGameConfig

SpecConfig == InitConfig /\ [][NextConfig]_vars

\* ---------------------------------------------- EventManager (lines 56-65)
\* The listeners of TestEventManager (Mock objects).
MockListeners == {"mock_a", "mock_b"}

\* for listener in self.listeners: listener.update(event) -- the update
\* calls made, in order.  The mutant returns after the first listener.
RECURSIVE NotifyCalls(_, _)
NotifyCallsFirstOnly(ls, event) ==
    IF ls = <<>> THEN <<>> ELSE <<[listener |-> Head(ls), event |-> event]>>
NotifyCalls(ls, event) ==
    IF ls = <<>> THEN <<>>
    ELSE <<[listener |-> Head(ls), event |-> event]>> \o NotifyCalls(Tail(ls), event)

\* EventManager.register (lines 60-61).
Register ==
    /\ Len(em_listeners) < MaxRegistrations
    /\ \E listener \in MockListeners :
        /\ em_listeners' = Append(em_listeners, listener)
        /\ em_last' = [op |-> "register", listener |-> listener, event |-> NoEvent]
    /\ UNCHANGED em_calls
    /\ UNCHANGED <<n_cells_x, n_cells_y, game_vars, config_vars, cg_vars>>

\* EventManager.notify (lines 63-65).
Notify ==
    /\ \E event \in Events :
        /\ em_calls' = NotifyCalls(em_listeners, event)
        /\ em_last' = [op |-> "notify", listener |-> "none", event |-> event]
    /\ UNCHANGED em_listeners
    /\ UNCHANGED <<n_cells_x, n_cells_y, game_vars, config_vars, cg_vars>>

InitEvents ==
    /\ NoGame
    /\ NoConfig
    /\ NewEventManager
    /\ NewComposite

NextEvents ==
    \/ Register
    \/ Notify

SpecEvents == InitEvents /\ [][NextEvents]_vars

\* ----------------------------------------- CompositeGraphic (lines 119-131)
\* The children of TestCompositeGraphic (Mock objects).
MockChildren == {"child_a", "child_b"}

\* list.remove(component): the first occurrence is removed.  The mutant
\* removes every occurrence.
RECURSIVE RemoveFirst(_, _)
RemoveAll(ch, c) == SelectSeq(ch, LAMBDA z : z # c)
RemoveFirst(ch, c) ==
    IF ch = <<>> THEN <<>>
    ELSE IF Head(ch) = c THEN Tail(ch)
    ELSE <<Head(ch)>> \o RemoveFirst(Tail(ch), c)

\* for child in self.children: child.draw() -- the children drawn, in order.
RECURSIVE DrawCalls(_)
DrawCalls(ch) ==
    IF ch = <<>> THEN <<>> ELSE <<Head(ch)>> \o DrawCalls(Tail(ch))

\* CompositeGraphic.add (lines 123-124).
AddChild ==
    /\ Len(cg_children) < MaxChildren
    /\ \E c \in MockChildren :
        /\ cg_children' = Append(cg_children, c)
        /\ cg_last' = [op |-> "add", c |-> c, raised |-> FALSE]
    /\ cg_prev' = cg_last
    /\ UNCHANGED cg_drawn
    /\ UNCHANGED <<n_cells_x, n_cells_y, game_vars, config_vars, em_vars>>

\* CompositeGraphic.remove (lines 126-127); list.remove raises ValueError
\* when the component is not in the list.
RemoveChild ==
    /\ \E c \in MockChildren :
        IF \E k \in DOMAIN cg_children : cg_children[k] = c
        THEN /\ cg_children' = RemoveFirst(cg_children, c)
             /\ cg_last' = [op |-> "remove", c |-> c, raised |-> FALSE]
        ELSE /\ UNCHANGED cg_children
             /\ cg_last' = [op |-> "remove", c |-> c, raised |-> TRUE]
    /\ cg_prev' = cg_last
    /\ UNCHANGED cg_drawn
    /\ UNCHANGED <<n_cells_x, n_cells_y, game_vars, config_vars, em_vars>>

\* CompositeGraphic.draw (lines 129-131).
DrawComposite ==
    /\ cg_drawn' = DrawCalls(cg_children)
    /\ cg_last' = [op |-> "draw", c |-> "none", raised |-> FALSE]
    /\ cg_prev' = cg_last
    /\ UNCHANGED cg_children
    /\ UNCHANGED <<n_cells_x, n_cells_y, game_vars, config_vars, em_vars>>

InitComposite ==
    /\ NoGame
    /\ NoConfig
    /\ NewEventManager
    /\ NewComposite

NextComposite ==
    \/ AddChild
    \/ RemoveChild
    \/ DrawComposite

SpecComposite == InitComposite /\ [][NextComposite]_vars

\* ===================================================================
\* Properties
\* ===================================================================
W == n_cells_x
H == n_cells_y
Grid == Cells(n_cells_x, n_cells_y)
InCall == pc \in {"cell", "commit"}

\* The coordinate d steps from a on a ring of n positions (d in -1..1).
WrapCoord(a, d, n) ==
    IF a + d < 0 THEN a + d + n
    ELSE IF a + d >= n THEN a + d - n
    ELSE a + d

Moore8 == ({-1, 0, 1} \X {-1, 0, 1}) \ {<<0, 0>>}

\* Offsets of the Moore neighbourhood of c whose cell, found across the
\* edges where needed, is alive.
LiveOffsets(g, c) ==
    {d \in Moore8 : g[<<WrapCoord(c[1], d[1], W), WrapCoord(c[2], d[2], H)>>] = 1}
LiveNeighbours(g, c) == Cardinality(LiveOffsets(g, c))

\* Conway's rule for cell c of grid g.
ConwayCell(g, c) ==
    LET n == LiveNeighbours(g, c)
    IN  IF g[c] = 1 /\ (n < 2 \/ n > 3) THEN 0
        ELSE IF g[c] = 0 /\ n = 3 THEN 1
        ELSE g[c]
ConwayGrid(g) == [c \in Grid |-> ConwayCell(g, c)]

RECURSIVE ConwayIter(_, _)
ConwayIter(g, k) == IF k = 0 THEN g ELSE ConwayIter(ConwayGrid(g), k - 1)

\* The loop (y outer, x inner) has already passed cell c.
Passed(c) ==
    \/ pc = "commit"
    \/ c[2] < loop_y
    \/ c[2] = loop_y /\ c[1] < loop_x

\* C1: one next_generation call kills a live cell with fewer than 2 or more
\* than 3 live neighbours, makes a dead cell with exactly 3 alive and leaves
\* every other cell as it was, the neighbours being counted on the torus in
\* the grid as it was before the call.
C1_Rule ==
    [][pc = "commit" => \A c \in Grid : state'[c] = ConwayCell(pre, c)]_vars

\* A call about to return in which a cell died of underpopulation, one of
\* overpopulation, one was born, one survived and one stayed dead.
C1_Witness ==
    /\ pc = "commit"
    /\ \E c \in Grid : pre[c] = 1 /\ LiveNeighbours(pre, c) < 2 /\ new_state[c] = 0
    /\ \E c \in Grid : pre[c] = 1 /\ LiveNeighbours(pre, c) > 3 /\ new_state[c] = 0
    /\ \E c \in Grid : pre[c] = 0 /\ LiveNeighbours(pre, c) = 3 /\ new_state[c] = 1
    /\ \E c \in Grid : pre[c] = 1 /\ LiveNeighbours(pre, c) \in {2, 3} /\ new_state[c] = 1
    /\ \E c \in Grid : pre[c] = 0 /\ LiveNeighbours(pre, c) # 3 /\ new_state[c] = 0

\* C2: inside a next_generation call the grid that is read (self.state) is
\* still the grid of the call's entry, every cell the loop has passed holds
\* the value the rule gives on that entry grid, and every cell it has not
\* reached holds its copied entry value: no cell was computed from a value
\* written earlier in the same call.
C2_ReadsSnapshot ==
    InCall =>
        /\ state = pre
        /\ \A c \in Grid :
            new_state[c] = IF Passed(c) THEN ConwayCell(pre, c) ELSE pre[c]

\* Mid-loop, with the cell just before the cursor rewritten in new_state: the
\* cell now being computed has an already-written neighbour.
C2_Witness ==
    /\ pc = "cell"
    /\ loop_x >= 1
    /\ loop_y >= 1
    /\ new_state[<<loop_x - 1, loop_y>>] # pre[<<loop_x - 1, loop_y>>]
    /\ new_state[<<loop_x, loop_y - 1>>] # pre[<<loop_x, loop_y - 1>>]

\* The screen shows a whole generation: the current grid, or the grid some
\* generations back, at most one per event of the batch already handled
\* (every draw is followed by one batch of at most MaxBatch events).  Before
\* the first draw the screen is blank.
ScreenShowsGeneration ==
    LET cur == IF InCall THEN pre ELSE state
        handled == IF pc = "poll" THEN 0 ELSE MaxBatch - pending
        back == IF InCall THEN handled - 1 ELSE handled
    IN  \/ screen = {} /\ pc = "frame" /\ executes = 0
        \/ screen = DrawnCells(cur, W, H)
        \/ \E k \in 1 .. back : ConwayIter(GridOf(W, H, screen), k) = cur

\* C3: the grid readers see changes only at the final assignment of a call,
\* in one step from the whole prior generation to the whole next one, and
\* what Cells.draw has put on the screen is always a whole generation.
C3_AtomicSwap ==
    /\ []ScreenShowsGeneration
    /\ [][state' # state =>
            /\ pc = "commit"
            /\ state' = new_state
            /\ state' = ConwayGrid(state)]_vars

\* A generation was computed from a click and changed the grid; the screen
\* still shows the generation drawn before it.
C3_Witness ==
    /\ pc = "events"
    /\ executes >= 1
    /\ screen # DrawnCells(state, W, H)
    /\ ConwayGrid(GridOf(W, H, screen)) = state

\* C4: for every cell the loop reaches, _count_neighbors is the number of
\* live cells among the 8 Moore neighbours taken modulo the grid's width and
\* height, lies in 0..8 (the cell itself is not among them), and the corner
\* cell (0, 0) counts the diagonally opposite corner.
C4_CountNeighbors ==
    pc = "cell" =>
        LET n == count_neighbors(state, W, H, loop_x, loop_y)
        IN  /\ n = LiveNeighbours(state, <<loop_x, loop_y>>)
            /\ n \in 0 .. 8
            /\ (W >= 3 /\ H >= 3 /\ loop_x = 0 /\ loop_y = 0
                    /\ state[<<W - 1, H - 1>>] = 1) => n >= 1

\* The loop has counted every cell of a grid whose only live cells are two
\* opposite corners, each the other's only neighbour.
C4_Witness ==
    /\ pc = "commit"
    /\ W >= 3
    /\ H >= 3
    /\ DrawnCells(pre, W, H) = {<<0, 0>>, <<W - 1, H - 1>>}
    /\ count_neighbors(pre, W, H, 0, 0) = 1
    /\ count_neighbors(pre, W, H, W - 1, H - 1) = 1

\* C5: every MOUSEBUTTONDOWN inside the button (edges included) makes one
\* next_generation call and no other event makes any: the calls made equal
\* the in-button clicks delivered.
C5_OneCallPerClick == executes = clicks

\* The game has exited after delivering two in-button clicks.
C5_Witness ==
    /\ pc = "exited"
    /\ clicks = 2
    /\ executes = 2

\* C6: the grid has shape (n_cells_x, n_cells_y) after construction and
\* after any number of next_generation calls.
C6_ShapeFixed ==
    /\ DOMAIN state = Grid
    /\ InCall => DOMAIN new_state = Grid

\* A non-square grid after two generations.
C6_Witness ==
    /\ pc = "events"
    /\ executes = 2
    /\ n_cells_x # n_cells_y

\* C7: every cell is 0 or 1, so the number of live cells is in 0 .. W*H.
C7_CellsBinary ==
    /\ \A c \in Grid : state[c] \in {0, 1}
    /\ InCall => \A c \in Grid : new_state[c] \in {0, 1}
    /\ Cardinality(DrawnCells(state, W, H)) \in 0 .. W * H

\* A generation with a birth is about to be committed.
C7_Witness ==
    /\ pc = "commit"
    /\ ret = "events"
    /\ \E c \in Grid : pre[c] = 0 /\ new_state[c] = 1

LineGrid(c, axis) == GridOf(W, H, LineCells(W, H, c, axis))

\* C8: on a grid of at least 5 x 5 whose only live cells are 3 in a row, one
\* call yields the 3 in a row through the same centre along the other axis.
C8_Blinker ==
    [][(pc = "commit" /\ W >= 5 /\ H >= 5) =>
         \A c \in Grid : \A axis \in {1, 2} :
            pre = LineGrid(c, axis) => state' = LineGrid(c, 3 - axis)]_vars

\* A horizontal line centred on the corner (0, 0), so it straddles the left
\* edge, has been turned into the vertical line straddling the top edge.
C8_Witness ==
    /\ pc = "commit"
    /\ W = 5
    /\ H = 5
    /\ pre = LineGrid(<<0, 0>>, 1)
    /\ new_state = LineGrid(<<0, 0>>, 2)

IsBlock(g) == \E c \in Grid : g = GridOf(W, H, BlockCells(W, H, c))

\* C9: on a grid of at least 4 x 4, a grid whose only live cells are a
\* 2 x 2 block never changes.
C9_BlockStill ==
    [][(W >= 4 /\ H >= 4 /\ IsBlock(state)) => state' = state]_vars

\* A block wrapped around the corner of a 4 x 4 grid came through a call.
C9_Witness ==
    /\ pc = "commit"
    /\ W = 4
    /\ H = 4
    /\ pre = GridOf(W, H, BlockCells(W, H, <<3, 3>>))
    /\ new_state = pre

AllDead(g) == \A c \in Grid : g[c] = 0

\* C10: an all-dead grid stays all dead.
C10_DeadStaysDead == [][AllDead(state) => AllDead(state')]_vars

\* An all-dead grid of at least 9 cells came through a call all dead.
C10_Witness ==
    /\ pc = "commit"
    /\ W * H >= 9
    /\ AllDead(pre)
    /\ AllDead(new_state)

\* C11: after construction only next_generation changes a cell: no step but
\* its final assignment changes the grid (the loop steps, which call
\* _count_neighbors, included), drawing and polling touch nothing of the
\* grid model, and an event that is not an in-button click (QUIT included)
\* starts no call and touches nothing of it either.
C11_OnlyNextGenerationWrites ==
    [][/\ pc # "commit" => state' = state
       /\ pc \in {"frame", "poll", "exited"} => UNCHANGED grid_vars
       /\ (pc = "events" /\ clicks' = clicks) =>
            (UNCHANGED grid_vars /\ pc' # "cell")]_vars

\* The game has drawn, handled events none of which was an in-button click,
\* among them QUIT, and exited: the grid is still the one drawn at first.
C11_Witness ==
    /\ pc = "exited"
    /\ clicks = 0
    /\ executes = 0
    /\ ~running
    /\ screen # {}
    /\ screen = DrawnCells(state, W, H)

\* C13 as stated: no run of the loop ends with a generation that was
\* computed but never drawn.
C13_Original == pc = "exited" => drawn_at = executes

\* C13 as amended: each frame draws and then polls once; after a batch
\* without QUIT the loop goes on to a frame, whose draw shows the grid with
\* every generation computed so far.  (A generation computed in the batch
\* that holds QUIT is not drawn: the loop exits.)
C13_DrawnWhileRunning ==
    /\ [](pc = "poll" => (drawn_at = executes /\ screen = DrawnCells(state, W, H)))
    /\ [](pc = "frame" => running)
    /\ [][/\ pc = "frame" => pc' = "poll"
          /\ pc = "poll" => pc' = "events"
          /\ (pc = "events" /\ pending = 0 /\ running) => pc' = "frame"]_vars

\* A frame has just drawn a grid that a click's generation changed.
C13_Witness ==
    /\ pc = "poll"
    /\ executes >= 1
    /\ drawn_at = executes
    /\ screen # {}
    /\ screen = DrawnCells(state, W, H)

\* np.sum of a 0/1 grid.
LiveCount(g) == Cardinality(DrawnCells(g, W, H))
Births(g) == {c \in Grid : g[c] = 0 /\ LiveNeighbours(g, c) = 3}
Deaths(g) == {c \in Grid : g[c] = 1 /\ LiveNeighbours(g, c) \notin {2, 3}}

\* g is a grid GameState.__init__ can produce.
Fresh(g) == g \in InitGrids(W, H, MaxCells)

C14_Singleton ==
    /\ [](cfg_returned \subseteq {cfg_instance} \ {NoInstance})
    /\ [](cfg_last.op = "get_instance" =>
            (~cfg_last.raised /\ cfg_last.result = cfg_instance
               /\ cfg_instance # NoInstance))
    /\ [][cfg_instance # NoInstance =>
            /\ cfg_instance' = cfg_instance
            /\ n_cells_x' = n_cells_x
            /\ n_cells_y' = n_cells_y
            /\ cfg_allocs' # cfg_allocs =>
                 (cfg_last'.op = "GameConfig" /\ cfg_last'.raised)]_vars

\* get_instance has returned the instance, and a later direct GameConfig()
\* has raised.
C14_Witness ==
    /\ cfg_last.op = "GameConfig"
    /\ cfg_last.raised
    /\ cfg_allocs >= 2
    /\ cfg_returned = {cfg_instance}

\* C15: after register(l), l is the last of the listeners; notify(e) makes
\* one update call per registration, in registration order, each with the
\* event e itself, and none on anything else.
C15_RegisterNotify ==
    /\ em_last.op = "register" =>
        /\ Len(em_listeners) >= 1
        /\ em_listeners[Len(em_listeners)] = em_last.listener
    /\ em_last.op = "notify" =>
        /\ Len(em_calls) = Len(em_listeners)
        /\ \A k \in 1 .. Len(em_listeners) :
            /\ em_calls[k].listener = em_listeners[k]
            /\ em_calls[k].event = em_last.event

\* A click was notified to three registrations, one listener registered twice.
C15_Witness ==
    /\ em_last.op = "notify"
    /\ em_last.event.type = MOUSEBUTTONDOWN
    /\ Len(em_calls) = 3
    /\ em_listeners = <<"mock_a", "mock_b", "mock_a">>

\* Occurrences of c in the sequence s, and s without them.
Occ(s, c) == Cardinality({k \in DOMAIN s : s[k] = c})
Without(s, c) == SelectSeq(s, LAMBDA z : z # c)

\* remove(c) directly follows add(c) in this step.
RemoveAfterAdd ==
    /\ cg_last.op = "add"
    /\ cg_last'.op = "remove"
    /\ cg_last'.c = cg_last.c
    /\ cg_prev' = cg_last

\* C16 as stated: after add(c) and a following remove(c), c is no longer
\* among the children, for any composite.
C16_Original ==
    [][RemoveAfterAdd => Occ(cg_children', cg_last.c) = 0]_vars

\* C16 as amended: after add(c) c is among the children; a following
\* remove(c) removes one occurrence of c (it does not raise, and the other
\* children keep their order), so c is gone exactly when it was not among
\* the children before the add; draw() draws every entry of children once,
\* in order.
C16_AddRemoveDraw ==
    /\ [](cg_last.op = "add" => Occ(cg_children, cg_last.c) >= 1)
    /\ [](cg_last.op = "draw" =>
            /\ Len(cg_drawn) = Len(cg_children)
            /\ \A k \in 1 .. Len(cg_children) : cg_drawn[k] = cg_children[k])
    /\ [][RemoveAfterAdd =>
            /\ ~cg_last'.raised
            /\ Occ(cg_children', cg_last.c) = Occ(cg_children, cg_last.c) - 1
            /\ Without(cg_children', cg_last.c) = Without(cg_children, cg_last.c)
            /\ Occ(cg_children', cg_last.c) = 0 <=> Occ(cg_children, cg_last.c) = 1]_vars

\* add(c) then remove(c) on a composite that held another child: c is gone
\* and the other child is still there.
C16_Witness ==
    /\ cg_prev.op = "add"
    /\ cg_last.op = "remove"
    /\ cg_last.c = cg_prev.c
    /\ ~cg_last.raised
    /\ Len(cg_children) >= 1
    /\ Occ(cg_children, cg_last.c) = 0

\* C17: Game.run exits, at the end of the batch that holds QUIT (no further
\* frame is drawn or polled once running is False), and it exits only after
\* a QUIT: while running is True the loop is never left.
C17_QuitTerminates ==
    /\ [](pc = "exited" => ~running)
    /\ [](pc \in {"frame", "poll"} => running)
    /\ (~running) ~> (pc = "exited")

\* A generation was computed and drawn, a later batch held QUIT, and the
\* game has exited.
C17_Witness ==
    /\ pc = "exited"
    /\ ~running
    /\ pending = 0
    /\ executes = 1
    /\ drawn_at = 1

\* C20: every event of a batch is handled, QUIT and the events after it
\* included: the loop is not left with events pending, and an in-button
\* click handled after QUIT still makes its next_generation call, which
\* advances the grid by one generation before control returns to the batch.
C20_EventsAfterQuit ==
    /\ [](pc = "exited" => pending = 0)
    /\ [][(pc = "events" /\ pending > 0) => pending' = pending - 1]_vars
    /\ [][(pc = "events" /\ ~running /\ clicks' = clicks + 1) =>
            (executes' = executes + 1 /\ pc' = "cell")]_vars
    /\ [][(pc = "commit" /\ ~running) =>
            (state' = ConwayGrid(pre) /\ pc' = "events")]_vars

\* QUIT has been handled, and the generation of a click that followed it in
\* the batch, which changes the grid, is about to be committed.
C20_Witness ==
    /\ pc = "commit"
    /\ ret = "events"
    /\ ~running
    /\ new_state # pre

\* The grid g moved by (a mod W, b mod H) around the torus: the cell at
\* (x, y) goes to ((x + a) mod W, (y + b) mod H).
Shift(g, a, b) ==
    [c \in Grid |-> g[<<(c[1] + W - (a % W)) % W, (c[2] + H - (b % H)) % H>>]]

\* Shifts tried on each axis of length n: -1 and n as well, so that the
\* reduction mod n is exercised.
Shifts(n) == -1 .. n

\* C19: next_generation commutes with every cyclic translation: for the
\* grid a call started from and each shift (a, b), next_generation of the
\* shifted grid is the shifted result of the call (with a = b = 0: the
\* result of the call is next_generation of its grid).
C19_TranslationCommutes ==
    pc = "commit" =>
        \A a \in Shifts(W), b \in Shifts(H) :
            next_generation(Shift(pre, a, b), W, H) = Shift(new_state, a, b)

\* A call on a grid of at least 3 x 3 with a live cell on an edge, whose
\* result differs from the grid and is moved by a shift along x.
C19_Witness ==
    /\ pc = "commit"
    /\ W >= 3
    /\ H >= 3
    /\ new_state # pre
    /\ \E y \in 0 .. H - 1 : pre[<<0, y>>] = 1
    /\ Shift(new_state, 1, 0) # new_state

====
